---- MODULE Spec2Model ----
(***************************************************************************)
(* SDFileLogger (src/src/SDFileLogger.h): a primary ring buffer            *)
(* (log_buffer_), a smaller ready ring buffer (ready_buffer_) and the      *)
(* SdFat file (file_) they are flushed to.                                 *)
(*                                                                         *)
(* CircularBuffer<T, N> (internal/circular_buffer.hpp) is not part of the  *)
(* sources at hand; its put/get/reset/size/... are modelled from section   *)
(* 4.1 of the design document: put on a full buffer is a no-op, get on an  *)
(* empty buffer hands back the zero value T() and changes nothing, reset   *)
(* zeroes the cursors and the count and leaves the storage alone.          *)
(*                                                                         *)
(* Bytes are small naturals.  The n-th call of log_putc appends either 0   *)
(* or the fresh value n, so every non-zero byte in flight is identified by *)
(* its value and the order of appends is the order of the values.          *)
(***************************************************************************)
EXTENDS Integers, Sequences, FiniteSets, TLC

\* Capacities of the two ring buffers (1024 and 512 in the source, scaled).
BUFFER_SIZE == 3
READY_BUFFER_SIZE == 2
\* Number of log_putc calls explored.
MaxAppends == 4
\* The byte a log file left over from an earlier run holds: none of the
\* bytes that log_putc appends.
StaleByte == MaxAppends + 1

VARIABLES
    log_buffer_,    \* CircularBuffer<char, BUFFER_SIZE>
    ready_buffer_,  \* CircularBuffer<char, READY_BUFFER_SIZE>
    file,           \* the bytes of the target file on the card
    phase,          \* "new" (before begin), "open", "closed"
    halted,         \* the program sits in errorHalt's while(true)
    halts,          \* how many times errorHalt was entered
    events,         \* backend calls and buffer resets of the latest handler
    appended,       \* history: every byte handed to log_putc, in order
    written,        \* history: every byte the backend accepted, in order
    clean           \* history: no backend call failed or fell short, no
                    \* log_putc met a full primary buffer or appended a zero
                    \* byte, and clear_ was not called

vars == <<log_buffer_, ready_buffer_, file, phase, halted, halts, events,
          appended, written, clean>>

Max(a, b) == IF a > b THEN a ELSE b

(***************************************************************************)
(* CircularBuffer<T, N>                                                    *)
(***************************************************************************)
CircularBuffer(N) ==
    [buf |-> [i \in 0..(N - 1) |-> 0], head |-> 0, tail |-> 0, count |-> 0, cap |-> N]

capacity(b) == b.cap
size(b) == b.count
empty(b) == b.count = 0
full(b) == b.count = b.cap

put(b, item) ==
    IF full(b) THEN b
    ELSE [b EXCEPT !.buf[b.head] = item,
                   !.head = (b.head + 1) % b.cap,
                   !.count = b.count + 1]

\* get() is split in the value it returns and the buffer it leaves.
get_value(b) == IF empty(b) THEN 0 ELSE b.buf[b.tail]
get_buffer(b) ==
    IF empty(b) THEN b
    ELSE [b EXCEPT !.tail = (b.tail + 1) % b.cap, !.count = b.count - 1]

reset(b) == [b EXCEPT !.head = 0, !.tail = 0, !.count = 0]

\* The logical contents, from tail (oldest) to the most recent byte.
Contents(b) == [i \in 1..b.count |-> b.buf[(b.tail + i - 1) % b.cap]]

\* len bytes of the storage array, from index start on.
Segment(b, start, len) == [i \in 1..len |-> b.buf[start + i - 1]]

(***************************************************************************)
(* The handlers work on a record of the program's state and thread it      *)
(* through the calls they make.  errorHalt never returns: every step after *)
(* it is skipped.                                                          *)
(***************************************************************************)
Ev(k, which, start, len, acc) ==
    [k |-> k, which |-> which, start |-> start, len |-> len, acc |-> acc]

Cur ==
    [log |-> log_buffer_, ready |-> ready_buffer_, file |-> file, phase |-> phase,
     halted |-> halted, halts |-> halts, ev |-> <<>>, written |-> written,
     clean |-> clean]

Buf(s, which) == IF which = "ready" THEN s.ready ELSE s.log

\* errorHalt that prints its message and returns to the caller.
errorHalt_Returns(s) ==
    [s EXCEPT !.ev = Append(s.ev, Ev("halt", "", 0, 0, 0))]

errorHalt(s) ==
    [s EXCEPT !.halted = TRUE, !.halts = s.halts + 1,
              !.ev = Append(s.ev, Ev("halt", "", 0, 0, 0))]

\* file_.write(&buffer[start], len): the backend takes all but short of the
\* len bytes, and none when short >= len.
file_write(s, which, start, len, short) ==
    LET acc == Max(len - short, 0)
        taken == Segment(Buf(s, which), start, acc)
    IN [s EXCEPT !.file = s.file \o taken,
                 !.written = s.written \o taken,
                 !.clean = s.clean /\ acc = len,
                 !.ev = Append(s.ev, Ev("write", which, start, len, acc))]

file_flush(s) == [s EXCEPT !.ev = Append(s.ev, Ev("sync", "", 0, 0, 0))]

\* The test with head <= tail for head < tail.
IsWraparound_Inclusive(b) ==
    (b.head <= b.tail) \/ ((b.tail > 0) /\ (size(b) = capacity(b)))

\* The test of lines 143 and 176.
IsWraparound(b) ==
    (b.head < b.tail) \/ ((b.tail > 0) /\ (size(b) = capacity(b)))

\* WriteCalls with the two segments of a wrapped buffer written in storage
\* order, storage[0..head) first.
WriteCalls_HeadFirst(s, which, short) ==
    LET b == Buf(s, which) IN
    IF IsWraparound(b)
    THEN file_write(file_write(s, which, 0, b.head, short[1]),
                    which, b.tail, capacity(b) - b.tail, short[2])
    ELSE file_write(s, which, b.tail, size(b), short[1])

\* Lines 143-155 and 176-188: the write calls, and bytes_written.
WriteCalls(s, which, short) ==
    LET b == Buf(s, which) IN
    IF IsWraparound(b)
    THEN file_write(file_write(s, which, b.tail, capacity(b) - b.tail, short[1]),
                    which, 0, b.head, short[2])
    ELSE file_write(s, which, b.tail, size(b), short[1])

BytesWritten(s) ==
    LET w == SelectSeq(s.ev, LAMBDA e : e.k = "write")
        Sum[i \in 0..Len(w)] == IF i = 0 THEN 0 ELSE Sum[i - 1] + w[i].acc
    IN Sum[Len(w)]

ResetBuffer(s, which) ==
    LET t == IF which = "ready" THEN [s EXCEPT !.ready = reset(s.ready)]
                                ELSE [s EXCEPT !.log = reset(s.log)]
    IN [t EXCEPT !.ev = Append(s.ev, Ev("reset", which, 0, 0, 0))]

\* Finish that resets the buffer before the durability flush.
Finish_ResetBeforeSync(s, which, before) ==
    LET verified == [s EXCEPT !.ev = Append(s.ev,
                        Ev("verify", which, 0, size(Buf(s, which)),
                           BytesWritten(s) - before))]
        t == IF BytesWritten(s) - before # size(Buf(s, which))
             THEN errorHalt(verified) ELSE verified
    IN IF t.halted THEN t ELSE file_flush(ResetBuffer(t, which))

\* Finish that leaves the written buffer as it is.
Finish_KeepsBuffer(s, which, before) ==
    LET verified == [s EXCEPT !.ev = Append(s.ev,
                        Ev("verify", which, 0, size(Buf(s, which)),
                           BytesWritten(s) - before))]
        t == IF BytesWritten(s) - before # size(Buf(s, which))
             THEN errorHalt(verified) ELSE verified
    IN IF t.halted THEN t ELSE file_flush(t)

\* Lines 157-163 and 190-196.
Finish(s, which, before) ==
    LET verified == [s EXCEPT !.ev = Append(s.ev,
                        Ev("verify", which, 0, size(Buf(s, which)),
                           BytesWritten(s) - before))]
        t == IF BytesWritten(s) - before # size(Buf(s, which))
             THEN errorHalt(verified) ELSE verified
    IN IF t.halted THEN t ELSE ResetBuffer(file_flush(t), which)

writeBufferToSDFile(s, short) ==
    Finish(WriteCalls(s, "log", short), "log", BytesWritten(s))

writeReadyBufferToSDFile(s, short) ==
    Finish(WriteCalls(s, "ready", short), "ready", BytesWritten(s))

\* flush_ that serves the primary buffer first.
flush_PrimaryFirst(s, short) ==
    IF ~empty(s.log) THEN writeBufferToSDFile(s, short)
    ELSE writeReadyBufferToSDFile(s, short)

\* flush_ that writes the ready buffer and goes on to the primary buffer.
flush_Both(s, short) ==
    LET r == writeReadyBufferToSDFile(s, short)
    IN IF r.halted THEN r ELSE writeBufferToSDFile(r, short)

\* flush_ that turns to the ready buffer only once it is full.
flush_ReadyWhenFull(s, short) ==
    IF full(s.ready) THEN writeReadyBufferToSDFile(s, short)
    ELSE writeBufferToSDFile(s, short)

flush_(s, short) ==
    IF ~empty(s.ready) THEN writeReadyBufferToSDFile(s, short)
    ELSE writeBufferToSDFile(s, short)

\* LoggerBase::flush() forwards to flush_().
flush(s, short) == flush_(s, short)

\* The loop with a get() that does not look whether the buffer is empty.
RECURSIVE prepareLoop_Unguarded(_, _)
prepareLoop_Unguarded(s, i) ==
    IF i >= READY_BUFFER_SIZE THEN s
    ELSE LET c == IF empty(s.log) THEN 0 ELSE s.log.buf[s.log.tail]
             t == [s EXCEPT !.log.tail = (s.log.tail + 1) % s.log.cap,
                            !.log.count = s.log.count - 1]
         IN IF c = 0 THEN t
            ELSE prepareLoop_Unguarded([t EXCEPT !.ready = put(t.ready, c)], i + 1)

\* The loop with the byte put into the ready buffer before the test for zero.
RECURSIVE prepareLoop_StageSentinel(_, _)
prepareLoop_StageSentinel(s, i) ==
    IF i >= READY_BUFFER_SIZE \/ empty(s.log) THEN s
    ELSE LET c == get_value(s.log)
             t == [s EXCEPT !.log = get_buffer(s.log), !.ready = put(s.ready, c)]
         IN IF c = 0 THEN t ELSE prepareLoop_StageSentinel(t, i + 1)

\* The loop making room in a full ready buffer by taking its oldest byte out.
RECURSIVE prepareLoop_MakeRoom(_, _)
prepareLoop_MakeRoom(s, i) ==
    IF i >= READY_BUFFER_SIZE THEN s
    ELSE LET c == get_value(s.log)
             t == [s EXCEPT !.log = get_buffer(s.log)]
             r == IF full(t.ready) THEN get_buffer(t.ready) ELSE t.ready
         IN IF c = 0 THEN t
            ELSE prepareLoop_MakeRoom([t EXCEPT !.ready = put(r, c)], i + 1)

RECURSIVE prepareLoop(_, _)
prepareLoop(s, i) ==
    IF i >= READY_BUFFER_SIZE THEN s
    ELSE LET c == get_value(s.log)
             t == [s EXCEPT !.log = get_buffer(s.log)]
         IN IF c = 0 THEN t
            ELSE prepareLoop([t EXCEPT !.ready = put(t.ready, c)], i + 1)

prepareBuffer(s) == prepareLoop(s, 0)

\* log_putc that makes room by dropping the oldest byte of a full buffer.
log_putc_Overwrite(s, c) ==
    [s EXCEPT !.log = put(IF full(s.log) THEN get_buffer(s.log) ELSE s.log, c),
              !.clean = s.clean /\ ~full(s.log) /\ c # 0]

log_putc(s, c) ==
    [s EXCEPT !.log = put(s.log, c), !.clean = s.clean /\ ~full(s.log) /\ c # 0]

\* clear_ that empties both buffers.
clear_Both(s) ==
    [s EXCEPT !.log = reset(s.log), !.ready = reset(s.ready), !.clean = FALSE]

clear_(s) == [s EXCEPT !.log = reset(s.log), !.clean = FALSE]

\* begin that does not look at what open returned.
begin_OpenUnchecked(s, openOk, truncOk, short) ==
    LET o == [s EXCEPT !.ev = Append(s.ev, Ev("open", "", 0, 0, IF openOk THEN 1 ELSE 0)),
                       !.phase = IF openOk THEN "open" ELSE s.phase,
                       !.clean = s.clean /\ openOk]
        t == [o EXCEPT !.ev = Append(o.ev, Ev("truncate", "", 0, 0, IF truncOk THEN 1 ELSE 0)),
                       !.file = IF truncOk /\ o.phase = "open" THEN <<>> ELSE o.file,
                       !.clean = o.clean /\ truncOk]
    IN flush(t, short)

\* begin(): open, truncate(0), flush().
begin(s, openOk, truncOk, short) ==
    LET o == [s EXCEPT !.ev = Append(s.ev, Ev("open", "", 0, 0, IF openOk THEN 1 ELSE 0)),
                       !.phase = IF openOk THEN "open" ELSE s.phase,
                       !.clean = s.clean /\ openOk]
        h == IF ~openOk THEN errorHalt(o) ELSE o
        t == [h EXCEPT !.ev = Append(h.ev, Ev("truncate", "", 0, 0, IF truncOk THEN 1 ELSE 0)),
                       !.file = IF truncOk /\ h.phase = "open" THEN <<>> ELSE h.file,
                       !.clean = h.clean /\ truncOk]
    IN IF h.halted THEN h ELSE flush(t, short)

\* close(): a final flush, then the file is closed.
close(s, short) ==
    LET f == flush(s, short)
    IN IF f.halted THEN f
       ELSE [f EXCEPT !.phase = "closed",
                      !.ev = Append(f.ev, Ev("close", "", 0, 0, 1))]

(***************************************************************************)
(* The state machine.  log_putc, prepareBuffer and clear_ may be called     *)
(* before begin(); flush() and close() are called on the open file; close  *)
(* ends the run.                                                           *)
(***************************************************************************)
\* By how much the backend falls short on the first and on the second write
\* call of a flush: not at all, by one byte, by every byte.
Shortfalls == [1..2 -> {0, 1, BUFFER_SIZE}]

Install(s) ==
    /\ log_buffer_' = s.log
    /\ ready_buffer_' = s.ready
    /\ file' = s.file
    /\ phase' = s.phase
    /\ halted' = s.halted
    /\ halts' = s.halts
    /\ events' = s.ev
    /\ written' = s.written
    /\ clean' = s.clean

Init ==
    /\ log_buffer_ = CircularBuffer(BUFFER_SIZE)
    /\ ready_buffer_ = CircularBuffer(READY_BUFFER_SIZE)
    /\ file = <<StaleByte>>
    /\ phase = "new"
    /\ halted = FALSE
    /\ halts = 0
    /\ events = <<>>
    /\ appended = <<>>
    /\ written = <<>>
    /\ clean = TRUE

Append_ ==
    /\ ~halted
    /\ phase # "closed"
    /\ Len(appended) < MaxAppends
    /\ \E c \in {0, Len(appended) + 1} :
          /\ Install(log_putc(Cur, c))
          /\ appended' = Append(appended, c)

PrepareBuffer ==
    /\ ~halted
    /\ phase # "closed"
    /\ Install(prepareBuffer(Cur))
    /\ UNCHANGED appended

Flush ==
    /\ ~halted
    /\ phase = "open"
    /\ \E short \in Shortfalls : Install(flush(Cur, short))
    /\ UNCHANGED appended

Clear ==
    /\ ~halted
    /\ phase # "closed"
    /\ Install(clear_(Cur))
    /\ UNCHANGED appended

Begin ==
    /\ ~halted
    /\ phase = "new"
    /\ \E openOk \in BOOLEAN, truncOk \in BOOLEAN, short \in Shortfalls :
          Install(begin(Cur, openOk, truncOk, short))
    /\ UNCHANGED appended

Close ==
    /\ ~halted
    /\ phase = "open"
    /\ \E short \in Shortfalls : Install(close(Cur, short))
    /\ UNCHANGED appended

Next == Append_ \/ PrepareBuffer \/ Flush \/ Clear \/ Begin \/ Close

Spec == Init /\ [][Next]_vars

(***************************************************************************)
(* Properties.                                                             *)
(***************************************************************************)
Range(q) == {q[i] : i \in 1..Len(q)}
NonZero(q) == SelectSeq(q, LAMBDA c : c # 0)
Increasing(q) == \A i, j \in 1..Len(q) : i < j => q[i] < q[j]
WritesOf(ev) == SelectSeq(ev, LAMBDA e : e.k = "write")
Has(ev, k) == \E i \in 1..Len(ev) : ev[i].k = k
AllAccepted(ev) == \A i \in 1..Len(ev) : ev[i].k = "write" => ev[i].acc = ev[i].len
\* The handler of this step flushed buffer which.
Flushed(which) == WritesOf(events') # <<>> /\ WritesOf(events')[1].which = which

Flushed_ready_last ==
    /\ WritesOf(events) # <<>>
    /\ WritesOf(events)[1].which = "ready"
    /\ WritesOf(events)[1].acc = READY_BUFFER_SIZE

\* C1: in a run without backend fault, zero byte, overflow or clear, the bytes
\* the backend took, then the ready buffer's contents, then the primary
\* buffer's contents are exactly the bytes appended so far.
C1_NoByteLost ==
    clean => written \o Contents(ready_buffer_) \o Contents(log_buffer_) = appended

\* C2: a flush of the primary buffer that the backend accepts in full hands
\* over exactly the buffer's contents from tail to the latest byte, size() of
\* them, whether the pending region wraps or not.
C2_DirectFlushRoundTrip ==
    [][(Flushed("log") /\ AllAccepted(events'))
        => /\ written' = written \o Contents(log_buffer_)
           /\ Len(written') - Len(written) = size(log_buffer_)]_vars

\* A wrapped primary buffer was flushed in two accepted writes.
C2_Witness ==
    /\ Len(WritesOf(events)) = 2
    /\ \A i \in 1..2 : /\ WritesOf(events)[i].which = "log"
                        /\ WritesOf(events)[i].len > 0
                        /\ WritesOf(events)[i].acc = WritesOf(events)[i].len
    /\ Has(events, "reset")

\* C3: the non-zero bytes reach the backend in the order they were appended;
\* and while the program runs, every byte of the ready buffer is older than
\* every byte of the primary buffer and younger than every byte already
\* written, so no flush can let a later byte overtake a staged one.
C3_StagingFIFO ==
    /\ Increasing(NonZero(written))
    /\ ~halted =>
          Increasing(NonZero(written \o Contents(ready_buffer_) \o Contents(log_buffer_)))

\* Staged bytes went out after earlier ones while the primary buffer holds
\* later ones.
C3_Witness ==
    /\ Flushed_ready_last
    /\ Len(NonZero(written)) >= 3
    /\ ~empty(log_buffer_)

\* C4: when the backend takes fewer bytes than asked on a write call, neither
\* buffer is reset, no durability flush is issued, errorHalt is entered, for
\* the only time; and once halted the backend is never written again.
C4_ShortWriteHalts ==
    [][/\ ~AllAccepted(events')
          => /\ log_buffer_' = log_buffer_
             /\ ready_buffer_' = ready_buffer_
             /\ ~Has(events', "sync")
             /\ ~Has(events', "reset")
             /\ halted' /\ halts = 0 /\ halts' = 1
       /\ halted => /\ written' = written /\ file' = file
                    /\ halted' /\ halts' = halts]_vars

\* A write call of a wrapped flush fell short and the program halted.
C4_Witness ==
    /\ halted /\ halts = 1
    /\ Len(WritesOf(events)) = 2
    /\ WritesOf(events)[1].acc < WritesOf(events)[1].len
    /\ ~empty(log_buffer_)

\* C5: log_putc on a full primary buffer changes nothing: cursors, count and
\* storage of the primary buffer, the ready buffer and the backend.
C5_PutOnFullRejected ==
    [][(Append_ /\ full(log_buffer_))
        => /\ log_buffer_' = log_buffer_
           /\ ready_buffer_' = ready_buffer_
           /\ written' = written]_vars

\* The primary buffer still holds the first BUFFER_SIZE bytes after one more
\* was appended.
C5_Witness ==
    /\ Len(appended) > BUFFER_SIZE
    /\ full(log_buffer_)
    /\ Contents(log_buffer_) = SubSeq(appended, 1, BUFFER_SIZE)
    /\ 0 \notin Range(appended)

\* The pending region wraps, as the claim words it.
Wrapped(b) == b.tail > b.head \/ (b.tail > 0 /\ b.count = b.cap)

FlushShape(b, W) ==
    /\ Wrapped(b) => /\ Len(W) = 2
                     /\ W[1].start = b.tail /\ W[1].len = b.cap - b.tail
                     /\ W[2].start = 0 /\ W[2].len = b.head
                     /\ W[1].len + W[2].len = b.count
    /\ ~Wrapped(b) => /\ Len(W) = 1
                      /\ W[1].start = b.tail /\ W[1].len = b.count

\* C6: a flush of a wrapped buffer issues two writes, capacity - tail bytes
\* from storage[tail] and then head bytes from storage[0], size() in all; any
\* other flush issues one write of size() bytes from storage[tail]; and the
\* buffer changes only when every write was accepted in full.
C6_WraparoundFlush ==
    [][/\ Flushed("log") => FlushShape(log_buffer_, WritesOf(events'))
       /\ Flushed("ready") => FlushShape(ready_buffer_, WritesOf(events'))
       /\ (WritesOf(events') # <<>> /\ ~AllAccepted(events'))
             => /\ log_buffer_' = log_buffer_
                /\ ready_buffer_' = ready_buffer_
                /\ ~Has(events', "reset")]_vars

\* A full primary buffer with tail > 0 was flushed in two writes and reset.
C6_Witness ==
    /\ Len(WritesOf(events)) = 2
    /\ WritesOf(events)[1].which = "log"
    /\ WritesOf(events)[1].start > 0
    /\ WritesOf(events)[1].len + WritesOf(events)[2].len = BUFFER_SIZE
    /\ Has(events, "reset")
    /\ empty(log_buffer_)

\* The number of bytes the latest handler asked the backend to write.
Handed(ev) ==
    LET W == WritesOf(ev)
        Sum[i \in 0..Len(W)] == IF i = 0 THEN 0 ELSE Sum[i - 1] + W[i].len
    IN Sum[Len(W)]

\* C7 as claimed: no flush hands the backend more than READY_BUFFER_SIZE bytes.
C7_FlushCappedByReady == Handed(events) <= READY_BUFFER_SIZE

\* C7 as amended: a flush writes one buffer; one that writes the ready buffer
\* hands over at most READY_BUFFER_SIZE bytes, one that writes the primary
\* buffer (the ready buffer being empty) at most BUFFER_SIZE bytes.
C7_FlushCappedByBuffer ==
    LET W == WritesOf(events) IN
    W # <<>> =>
       /\ \A i \in 1..Len(W) : W[i].which = W[1].which
       /\ Handed(events) <= IF W[1].which = "ready" THEN READY_BUFFER_SIZE
                                                   ELSE BUFFER_SIZE

\* A direct flush of the primary buffer handed over more than the ready
\* buffer can hold.
C7_Witness ==
    /\ WritesOf(events) # <<>>
    /\ WritesOf(events)[1].which = "log"
    /\ Handed(events) > READY_BUFFER_SIZE
    /\ AllAccepted(events)

\* C8: a prepareBuffer call on a primary buffer without zero bytes pops
\* nothing while the ready buffer is full, leaves size(primary) + size(ready)
\* as it was, and every byte it removes from the primary buffer is in the
\* ready buffer afterwards.
C8_PrepareKeepsBytes ==
    [][(PrepareBuffer /\ 0 \notin Range(Contents(log_buffer_)))
        => /\ full(ready_buffer_) => log_buffer_' = log_buffer_
           /\ size(log_buffer_') + size(ready_buffer_')
                 = size(log_buffer_) + size(ready_buffer_)
           /\ \A c \in Range(Contents(log_buffer_)) \ Range(Contents(log_buffer_')) :
                 c \in Range(Contents(ready_buffer_'))]_vars

\* C9: after close() of a log without zero bytes whose final flush the
\* backend accepted in full, both
\* buffers are empty and every byte buffered before is written, staged bytes
\* first.
C9_CloseDrainsBoth ==
    [][(Has(events', "close") /\ AllAccepted(events') /\ 0 \notin Range(appended))
        => /\ empty(ready_buffer_') /\ empty(log_buffer_')
           /\ written' = written \o Contents(ready_buffer_) \o Contents(log_buffer_)]_vars

\* C10: when open fails in begin(), errorHalt is entered with no truncate,
\* write or durability flush issued, and the buffers and the file keep their
\* contents.
C10_OpenFailureHalts ==
    [][(events' # <<>> /\ events'[1].k = "open" /\ events'[1].acc = 0)
        => /\ halted' /\ halts' = 1
           /\ ~Has(events', "truncate") /\ ~Has(events', "write")
           /\ ~Has(events', "sync") /\ ~Has(events', "reset")
           /\ log_buffer_' = log_buffer_ /\ ready_buffer_' = ready_buffer_
           /\ file' = file /\ written' = written]_vars

\* begin() failed to open the file while both buffers held bytes.
C10_Witness ==
    /\ halted
    /\ Len(events) = 2 /\ events[1].k = "open" /\ events[1].acc = 0
    /\ ~empty(log_buffer_) /\ ~empty(ready_buffer_)
    /\ written = <<>>

\* The index of the first event of kind k in ev, 0 when there is none.
IndexOf(ev, k) ==
    IF Has(ev, k) THEN CHOOSE i \in 1..Len(ev) :
                          ev[i].k = k /\ \A j \in 1..(i - 1) : ev[j].k # k
    ELSE 0
Count(ev, k) == Len(SelectSeq(ev, LAMBDA e : e.k = k))

\* C11: when truncate fails in begin(), errorHalt is entered and no byte is
\* written to the file.
C11_TruncateFailureHalts ==
    [][(Has(events', "truncate") /\ events'[IndexOf(events', "truncate")].acc = 0)
        => /\ halted'
           /\ ~Has(events', "write")
           /\ written' = written /\ file' = file]_vars

RingInvariant(b, N) ==
    /\ b.cap = N
    /\ DOMAIN b.buf = 0..(N - 1)
    /\ 0 <= b.head /\ b.head < N
    /\ 0 <= b.tail /\ b.tail < N
    /\ 0 <= b.count /\ b.count <= N
    /\ b.count = N => b.head = b.tail
    /\ b.count % N = (b.head - b.tail + N) % N

\* C12: both ring buffers keep their cursors inside the storage, their count
\* between 0 and N, head = tail when full, and count congruent to head - tail
\* modulo N.
C12_RingInvariant ==
    /\ RingInvariant(log_buffer_, BUFFER_SIZE)
    /\ RingInvariant(ready_buffer_, READY_BUFFER_SIZE)

\* prepareBuffer ran on a primary buffer that held a single byte, less than
\* the staging budget, and met the empty buffer.
C12_Witness ==
    /\ appended = <<1>>
    /\ size(ready_buffer_) = 1
    /\ empty(log_buffer_) /\ log_buffer_.tail = 1 /\ log_buffer_.head = 1

\* C13: a handler that reset a buffer issued its write calls, then compared
\* the accepted total with size(), then issued one durability flush, then
\* reset the buffer, which now has head = tail = 0 and size 0.
C13_FlushOrder ==
    Has(events, "reset") =>
       LET v == IndexOf(events, "verify")
           y == IndexOf(events, "sync")
           r == IndexOf(events, "reset")
           b == IF events[r].which = "ready" THEN ready_buffer_ ELSE log_buffer_
       IN /\ Count(events, "verify") = 1
          /\ Count(events, "sync") = 1
          /\ Count(events, "reset") = 1
          /\ WritesOf(events) # <<>>
          /\ \A i \in 1..Len(events) : events[i].k = "write" => i < v
          /\ v < y /\ y < r
          /\ events[v].acc = events[v].len
          /\ events[v].which = events[r].which
          /\ b.head = 0 /\ b.tail = 0 /\ b.count = 0

\* The ready buffer went out in one write, was verified, synced and reset.
C13_Witness ==
    /\ Len(events) = 4
    /\ events[1].k = "write" /\ events[1].which = "ready" /\ events[1].len > 0
    /\ events[2].k = "verify" /\ events[3].k = "sync" /\ events[4].k = "reset"

\* The bytes a step added to those the backend accepted.
Delta == SubSeq(written', Len(written) + 1, Len(written'))

\* C14: a flush writes the ready buffer when it holds a byte and the primary
\* buffer otherwise; the other buffer is left as it is and none of its bytes
\* goes to the backend.
C14_FlushSelection ==
    [][WritesOf(events') # <<>>
        => LET sel == IF ~empty(ready_buffer_) THEN "ready" ELSE "log"
               W == WritesOf(events')
           IN /\ \A i \in 1..Len(W) : W[i].which = sel
              /\ sel = "ready" =>
                    /\ log_buffer_' = log_buffer_
                    /\ Range(Delta) \subseteq Range(Contents(ready_buffer_))
                    /\ Range(NonZero(Delta)) \cap Range(Contents(log_buffer_)) = {}
              /\ sel = "log" =>
                    /\ ready_buffer_' = ready_buffer_
                    /\ Range(Delta) \subseteq Range(Contents(log_buffer_))]_vars

\* A partly filled ready buffer was flushed while the primary buffer held
\* bytes, which it still holds.
C14_Witness ==
    /\ WritesOf(events) # <<>>
    /\ WritesOf(events)[1].which = "ready"
    /\ WritesOf(events)[1].len = 1 /\ WritesOf(events)[1].acc = 1
    /\ size(log_buffer_) >= 2
    /\ empty(ready_buffer_)

\* The position of the first zero byte in q, 0 when there is none.
FirstZero(q) ==
    IF 0 \in Range(q) THEN CHOOSE i \in 1..Len(q) :
                              q[i] = 0 /\ \A j \in 1..(i - 1) : q[j] # 0
    ELSE 0

\* C15: when prepareBuffer pops a zero byte (the first zero byte of the primary
\* buffer lies within the budget), the primary buffer keeps exactly the bytes
\* after it, in order; the ready buffer gains only bytes from before it, and
\* never holds a zero byte.
C15_ZeroByteSentinel ==
    [][PrepareBuffer =>
         LET C == Contents(log_buffer_)
             k == FirstZero(C)
         IN /\ 0 \notin Range(Contents(ready_buffer_'))
            /\ (k > 0 /\ k <= READY_BUFFER_SIZE) =>
                  /\ Contents(log_buffer_') = SubSeq(C, k + 1, Len(C))
                  /\ Range(Contents(ready_buffer_'))
                        \subseteq Range(Contents(ready_buffer_)) \cup Range(SubSeq(C, 1, k - 1))
                  /\ Len(Contents(ready_buffer_'))
                        <= Len(Contents(ready_buffer_)) + k - 1]_vars

\* prepareBuffer staged byte 1, dropped the zero byte after it and left byte 3
\* in the primary buffer.
C15_Witness ==
    /\ Len(appended) >= 3 /\ appended[1] = 1 /\ appended[2] = 0 /\ appended[3] = 3
    /\ Contents(ready_buffer_) = <<1>>
    /\ Contents(log_buffer_) = <<3>>
    /\ written = <<>>

\* C16: in a run without fault, a flush issues at most two write calls and
\* none of length zero.
C16_NoEmptyWrite ==
    clean =>
       /\ Len(WritesOf(events)) <= 2
       /\ \A i \in 1..Len(events) : events[i].k = "write" => events[i].len > 0

\* C17: a begin() that returns, entered with an empty ready buffer and a
\* primary buffer that holds bytes, none of them zero, has opened, then truncated, then
\* flushed, and the file holds exactly the bytes the primary buffer held, in
\* order.
C17_BeginWritesBuffered ==
    [][(/\ events' # <<>> /\ events'[1].k = "open" /\ ~halted'
        /\ empty(ready_buffer_) /\ ~empty(log_buffer_)
        /\ 0 \notin Range(appended))
        => /\ events'[2].k = "truncate"
           /\ \A i \in 1..Len(events') : events'[i].k = "write" => i > 2
           /\ file' = Contents(log_buffer_)]_vars

\* C18: the ready buffer's tail is 0 in every state, so it never wraps, and a
\* flush of it is one write of size() bytes from storage[0].
C18_ReadyNeverWraps ==
    [][/\ ready_buffer_.tail = 0 /\ ~IsWraparound(ready_buffer_)
       /\ ready_buffer_'.tail = 0 /\ ~IsWraparound(ready_buffer_')
       /\ Flushed("ready")
             => /\ Len(WritesOf(events')) = 1
                /\ WritesOf(events')[1].start = 0
                /\ WritesOf(events')[1].len = size(ready_buffer_)]_vars

\* A full ready buffer, head back at 0, went out in a single write.
C18_Witness ==
    /\ Len(WritesOf(events)) = 1
    /\ WritesOf(events)[1].which = "ready"
    /\ WritesOf(events)[1].start = 0
    /\ WritesOf(events)[1].len = READY_BUFFER_SIZE
    /\ halted /\ full(ready_buffer_) /\ ready_buffer_.head = 0

\* C19: clear_ empties the primary buffer and leaves the ready buffer, the
\* file and the bytes written as they are; a later flush that the backend
\* accepts writes the staged bytes.
C19_ClearKeepsStaged ==
    [][/\ Clear => /\ empty(log_buffer_')
                   /\ ready_buffer_' = ready_buffer_
                   /\ file' = file /\ written' = written
       /\ (Flushed("ready") /\ AllAccepted(events'))
             => written' = written \o Contents(ready_buffer_)]_vars

\* clear_ was called before begin(), whose flush then wrote the staged bytes:
\* the only bytes of the log that reached the file.
C19_Witness ==
    /\ events # <<>> /\ events[1].k = "open"
    /\ events[2].k = "truncate" /\ events[2].acc = 1
    /\ AllAccepted(events) /\ ~halted
    /\ WritesOf(events)[1].which = "ready"
    /\ ~clean
    /\ 0 \notin Range(appended) /\ Len(appended) = BUFFER_SIZE
    /\ Len(written) = 1
    /\ empty(log_buffer_)

\* No shortfall on either write call.
NoShortfall == [i \in 1..2 |-> 0]
TwoFlushes == flush(flush(Cur, NoShortfall), NoShortfall)

\* C20: in every running state with the file open, two flushes in a row that
\* the backend accepts leave both buffers empty and have written the ready
\* buffer's bytes and then the primary buffer's.
C20_TwoFlushesDrain ==
    (phase = "open" /\ ~halted) =>
       /\ ~TwoFlushes.halted
       /\ empty(TwoFlushes.ready) /\ empty(TwoFlushes.log)
       /\ TwoFlushes.written
             = written \o Contents(ready_buffer_) \o Contents(log_buffer_)

\* Both buffers hold bytes, the primary buffer wrapped, and one flush does
\* not drain them.
C20_Witness ==
    /\ phase = "open" /\ ~halted
    /\ ~empty(ready_buffer_)
    /\ IsWraparound(log_buffer_)
    /\ ~empty(flush(Cur, NoShortfall).log)
    /\ empty(TwoFlushes.log)

====
